---- MODULE Spec2Model ----
(***************************************************************************)
(* A model of cloudinit/config/cc_puppet.py: the handler `handle` that     *)
(* installs, configures and starts puppet from the `puppet` key of the     *)
(* cloud configuration.                                                    *)
(*                                                                         *)
(* Encoding.  A Python value that may be missing (a dictionary key that    *)
(* may be absent, or None) is a sequence of length 0 or 1: <<>> is         *)
(* "absent", <<v>> is "present with value v".  A Python str that the code  *)
(* takes apart (split, replace, lower) is a sequence of one-character      *)
(* strings; other strings are atomic.  An external call (subp, file-system *)
(* helper, package installer, url fetch) is a record [op, args] appended   *)
(* to `calls`; any external call may raise, which aborts the handler.      *)
(***************************************************************************)
EXTENDS Integers, Sequences, FiniteSets, TLC

VARIABLES
    cfg,            \* the configuration: <<>> or <<puppet_cfg>>
    env,            \* what the machine looks like when the handler starts
    pc,             \* position in handle
    run,            \* local `run` of handle
    p_constants,    \* local `p_constants` (<<>> until set)
    puppet_config,  \* local `puppet_config`, the parser object
    idx,            \* position of the `for` loop over puppet_cfg['conf']
    fs,             \* file system: [files, dirs, owner]
    calls,          \* external calls made so far, in order
    raised,         \* <<>>, or <<c>> for the external call c that raised
    warnings        \* log.warning messages so far, in order

vars == <<cfg, env, pc, run, p_constants, puppet_config, idx, fs, calls, raised, warnings>>

(***************************************************************************)
(* Bounds of the model.                                                    *)
(***************************************************************************)
MaxSections == 2    \* sections in puppet_cfg['conf']
MaxKeys == 2        \* keys in one section of puppet_cfg['conf']
MaxArgs == 2        \* elements of a list exec_args
MaxArgChars == 3    \* characters of a string exec_args
MaxNameChars == 3   \* characters of a certname value

(***************************************************************************)
(* Program constants.                                                      *)
(***************************************************************************)
AIO_INSTALL_URL == "https://raw.githubusercontent.com/puppetlabs/install-puppet/main/install.sh"
PUPPET_AGENT_DEFAULT_ARGS == <<"--test">>
ReadUrlRetries == 5
SslDirMode == 505       \* 0o771
InstallScriptMode == 448 \* 0o700

None == <<>>
Some(v) == <<v>>
IsNone(o) == o = <<>>

Min(a, b) == IF a < b THEN a ELSE b

RECURSIVE Concat(_)
\* the concatenation of a sequence of sequences
Concat(ss) == IF ss = <<>> THEN <<>> ELSE Head(ss) \o Concat(Tail(ss))

RECURSIVE Str(_)
\* the atomic string spelled by a sequence of characters
Str(chars) == IF chars = <<>> THEN "" ELSE Head(chars) \o Str(Tail(chars))

RECURSIVE SeqsUpTo(_, _)
\* all sequences over S of length at most n
SeqsUpTo(S, n) ==
    IF n = 0 THEN {<<>>}
    ELSE LET shorter == SeqsUpTo(S, n - 1)
         IN  shorter \cup {Append(s, x) : s \in shorter, x \in S}

\* the sequences of distinct elements of S of length at most n
DistinctSeqsUpTo(S, n) ==
    {s \in SeqsUpTo(S, n) : \A a, b \in 1..Len(s) : a # b => s[a] # s[b]}

Call(op, args) == [op |-> op, args |-> args]

(***************************************************************************)
(* Python str operations used by the handler, on sequences of characters.  *)
(***************************************************************************)
Whitespace == {" ", "\n"}

LowerChar(c) ==
    CASE c = "F" -> "f"
      [] c = "H" -> "h"
      [] c = "I" -> "i"
      [] c = "P" -> "p"
      [] c = "E" -> "e"
      [] c = "M" -> "m"
      [] OTHER -> c

\* str.lower()
Lower(s) == [k \in 1..Len(s) |-> LowerChar(s[k])]

RECURSIVE Replace(_, _, _)
\* str.replace(old, new) for a non-empty old: leftmost, non-overlapping
Replace(s, old, new) ==
    IF Len(s) < Len(old) THEN s
    ELSE IF SubSeq(s, 1, Len(old)) = old
         THEN new \o Replace(SubSeq(s, Len(old) + 1, Len(s)), old, new)
         ELSE <<Head(s)>> \o Replace(Tail(s), old, new)

RECURSIVE SplitFrom(_, _)
\* the words of s, given the characters `word` of the word being read
SplitFrom(s, word) ==
    IF s = <<>> THEN (IF word = <<>> THEN <<>> ELSE <<word>>)
    ELSE IF Head(s) \in Whitespace
         THEN (IF word = <<>> THEN <<>> ELSE <<word>>) \o SplitFrom(Tail(s), <<>>)
         ELSE SplitFrom(Tail(s), Append(word, Head(s)))

\* str.split() with no separator: the maximal runs of non-whitespace
Split(s) == SplitFrom(s, <<>>)

RECURSIVE Rstrip(_)
\* str.rstrip(): drop the trailing whitespace
Rstrip(s) ==
    IF s # <<>> /\ s[Len(s)] \in Whitespace THEN Rstrip(SubSeq(s, 1, Len(s) - 1)) ELSE s

\* os.path.join(a, b) for a relative b
PathJoin(a, b) == a \o "/" \o b

(***************************************************************************)
(* util.get_cfg_option_bool / util.get_cfg_option_str: the value under     *)
(* `key` when the key is there, the default when it is not.                *)
(***************************************************************************)
get_cfg_option_bool(yobj, key, default) ==
    IF IsNone(yobj[key]) THEN default ELSE yobj[key][1]

get_cfg_option_str(yobj, key, default) ==
    IF IsNone(yobj[key]) THEN default ELSE yobj[key][1]

(***************************************************************************)
(* helpers.DefaultingConfigParser.  The text of puppet.conf is a sequence  *)
(* of lines; the parser object is a sequence of sections, each a name and  *)
(* a sequence of (key, value) items, in file order.                        *)
(***************************************************************************)
SectionLine(name) == [kind |-> "section", name |-> name, value |-> <<>>, indent |-> 0]
OptionLine(key, value) == [kind |-> "option", name |-> key, value |-> value, indent |-> 0]
BlankLine == [kind |-> "blank", name |-> "", value |-> <<>>, indent |-> 0]
Indented(line) == [line EXCEPT !.indent = 1]

\* i.lstrip() for a line i of the file
LStripLine(line) == [line EXCEPT !.indent = 0]

\* cleaned_lines = [i.lstrip() for i in contents.splitlines()]
CleanLines(contents) == [k \in 1..Len(contents) |-> LStripLine(contents[k])]

HasSection(config, section) == \E k \in 1..Len(config) : config[k].name = section

SectionIndex(config, section) == CHOOSE k \in 1..Len(config) : config[k].name = section

HasOption(items, key) == \E k \in 1..Len(items) : items[k][1] = key

OptionIndex(items, key) == CHOOSE k \in 1..Len(items) : items[k][1] = key

\* add_section
AddSection(config, section) == Append(config, [name |-> section, items |-> <<>>])

\* SetOption when a key is always added at the end, also when the section has it
SetOptionAppends(config, section, key, value) ==
    LET s == SectionIndex(config, section)
    IN  [config EXCEPT ![s].items = Append(config[s].items, <<key, value>>)]

\* RawConfigParser.set on a section that exists
SetOption(config, section, key, value) ==
    LET s == SectionIndex(config, section)
        items == config[s].items
        items2 == IF HasOption(items, key)
                  THEN [items EXCEPT ![OptionIndex(items, key)] = <<key, value>>]
                  ELSE Append(items, <<key, value>>)
    IN  [config EXCEPT ![s].items = items2]

\* DefaultingConfigParser.set(section, option, value)
ConfigSet(config, section, key, value) ==
    SetOption(IF HasSection(config, section) THEN config ELSE AddSection(config, section),
              section, key, value)

RECURSIVE ReadLines(_, _)
\* read_file: a header opens a section, an option line sets its key in the
\* section being read, a blank line separates and is not kept
ReadLines(lines, config) ==
    IF lines = <<>> THEN config
    ELSE LET l == Head(lines)
         IN  ReadLines(Tail(lines),
                 CASE l.kind = "section" -> AddSection(config, l.name)
                   [] l.kind = "option" ->
                        SetOption(config, config[Len(config)].name, l.name, l.value)
                   [] OTHER -> config)

ReadFile(lines) == ReadLines(lines, <<>>)

\* the lines written for one section: header, options, a blank line
SectionLines(section) ==
    <<SectionLine(section.name)>>
        \o [k \in 1..Len(section.items) |->
                OptionLine(section.items[k][1], section.items[k][2])]
        \o <<BlankLine>>

\* DefaultingConfigParser.stringify()
Stringify(config) == Concat([k \in 1..Len(config) |-> SectionLines(config[k])])

(***************************************************************************)
(* The file system the util helpers act on: the content of each file, the  *)
(* mode of each directory and the owner of each path.                      *)
(***************************************************************************)
\* yaml.dump(d, default_flow_style=False) of a flat mapping: one line per key
YamlDump(d) == [k \in 1..Len(d) |-> d[k][1] \o ": " \o d[k][2]]

Put(f, k, v) == [x \in DOMAIN f \cup {k} |-> IF x = k THEN v ELSE f[x]]

Drop(f, ks) == [x \in DOMAIN f \ ks |-> f[x]]

IsFile(f, path) == path \in DOMAIN f.files

IsDir(f, path) == path \in DOMAIN f.dirs

\* the effect of one external call that succeeds
Effect(f, c) ==
    CASE c.op = "write_file" -> [f EXCEPT !.files = Put(f.files, c.args[1], c.args[2])]
      [] c.op = "rename" ->
            [f EXCEPT !.files = Put(Drop(f.files, {c.args[1]}), c.args[2], f.files[c.args[1]])]
      [] c.op = "ensure_dir" ->
            [f EXCEPT !.dirs = Put(f.dirs, c.args[1], c.args[2])]
      [] c.op = "mkdtemp" ->
            [f EXCEPT !.dirs = Put(f.dirs, c.args[1], c.args[2])]
      [] c.op = "rmtree" ->
            [f EXCEPT !.dirs = Drop(f.dirs, {c.args[1]}),
                      !.files = Drop(f.files, {c.args[2]})]
      [] c.op = "chownbyname" ->
            [f EXCEPT !.owner = Put(f.owner, c.args[1], <<c.args[2], c.args[3]>>)]
      [] OTHER -> f

RECURSIVE Effects(_, _)
\* the effect of a sequence of external calls that all succeed
Effects(f, cs) == IF cs = <<>> THEN f ELSE Effects(Effect(f, Head(cs)), Tail(cs))

(***************************************************************************)
(* The outcomes of a sequence cs of external calls made one after the      *)
(* other: all succeed, or the first n succeed and call n+1 raises.         *)
(***************************************************************************)
Outcome(cs, n) ==
    [made |-> SubSeq(cs, 1, Min(n + 1, Len(cs))),
     done |-> SubSeq(cs, 1, n),
     raised |-> IF n < Len(cs) THEN Some(cs[n + 1]) ELSE None]

\* the outcomes in the order of the call that raises, the run without failure last
Outcomes(cs) == [k \in 1..(Len(cs) + 1) |-> Outcome(cs, k - 1)]

(***************************************************************************)
(* The machine.                                                            *)
(***************************************************************************)
\* socket.getfqdn()
Fqdn == <<"H", ".", "f">>

\* cloud.get_instance_id()
InstanceId == <<"I", "-", "1">>

\* what `puppet config print <setting>` writes on standard output
ConfigPrint(puppet_bin, setting) ==
    LET root == IF puppet_bin = "puppet" THEN "/etc/puppet" ELSE "/etc/puppetlabs/puppet"
    IN  CASE setting = "config" -> <<root, "/puppet.conf", "\n">>
          [] setting = "ssldir" ->
                <<IF puppet_bin = "puppet" THEN "/var/lib/puppet" ELSE root, "/ssl", "\n">>
          [] OTHER -> <<root, "/csr_attributes.yaml", "\n">>

\* the paths _autostart_puppet looks for
AutostartPaths == {"/etc/default/puppet", "/bin/systemctl", "/sbin/chkconfig"}

\* the directory temp_utils.tempdir creates, and the script written in it
TmpDir == "/run/tmp/ci"

(***************************************************************************)
(* handle: the configuration keys and the locals derived from them.        *)
(***************************************************************************)
HasPuppet == cfg # <<>>

puppet_cfg == cfg[1]

HasKey(yobj, key) == ~IsNone(yobj[key])

install == get_cfg_option_bool(puppet_cfg, "install", TRUE)

\* None, or the version string
version == puppet_cfg.version

\* None, or the collection string
collection == puppet_cfg.collection

install_type == get_cfg_option_str(puppet_cfg, "install_type", "packages")

cleanup == get_cfg_option_bool(puppet_cfg, "cleanup", TRUE)

exec == get_cfg_option_bool(puppet_cfg, "exec", FALSE)

aio_install_url == get_cfg_option_str(puppet_cfg, "aio_install_url", AIO_INSTALL_URL)

puppet_user == IF install_type = "aio" THEN "root" ELSE "puppet"

puppet_bin == IF install_type = "aio" THEN "/opt/puppetlabs/bin/puppet" ELSE "puppet"

puppet_package == IF install_type = "aio" THEN "puppet-agent" ELSE "puppet"

package_name == get_cfg_option_str(puppet_cfg, "package_name", puppet_package)

\* the truth value of `version`: neither None nor the empty string
Truthy(v) == ~IsNone(v) /\ v[1] # ""

(***************************************************************************)
(* Installation (handle, lines 213-228, and install_puppet_aio).           *)
(***************************************************************************)
\* the content url_helper.readurl returns for the install script
ScriptContent == <<"#!/bin/sh">>

TmpFile == PathJoin(TmpDir, "puppet-install")

\* AioArgs when --cleanup is put before the version and the collection
AioArgsCleanupFirst(ver, coll, clean) ==
    (IF clean THEN <<"--cleanup">> ELSE <<>>)
        \o (IF ~IsNone(ver) THEN <<"-v", ver[1]>> ELSE <<>>)
        \o (IF ~IsNone(coll) THEN <<"-c", coll[1]>> ELSE <<>>)

\* args of install_puppet_aio
AioArgs(ver, coll, clean) ==
    (IF ~IsNone(ver) THEN <<"-v", ver[1]>> ELSE <<>>)
        \o (IF ~IsNone(coll) THEN <<"-c", coll[1]>> ELSE <<>>)
        \o (IF clean THEN <<"--cleanup">> ELSE <<>>)

\* the calls of install_puppet_aio when none raises, the `with` exit last
AioCalls(url, ver, coll, clean) ==
    <<Call("readurl", <<url, ReadUrlRetries>>),
      Call("mkdtemp", <<TmpDir, None>>),
      Call("write_file", <<TmpFile, ScriptContent, Some(InstallScriptMode)>>),
      Call("subp", <<TmpFile>> \o AioArgs(ver, coll, clean)),
      Call("rmtree", <<TmpDir, TmpFile>>)>>

\* install_puppet_aio: the temporary directory is removed when the `with`
\* block is left, by a return or by an exception
install_puppet_aio(url, ver, coll, clean) ==
    LET cs == AioCalls(url, ver, coll, clean)
        body == SubSeq(cs, 1, 4)
        exit == <<cs[5]>>
    IN  [k \in 1..5 |->
            IF k = 5 THEN [made |-> cs, done |-> cs, raised |-> None]
            ELSE IF k <= 2
                 THEN [made |-> SubSeq(body, 1, k), done |-> SubSeq(body, 1, k - 1),
                       raised |-> Some(body[k])]
                 ELSE [made |-> SubSeq(body, 1, k) \o exit,
                       done |-> SubSeq(body, 1, k - 1) \o exit,
                       raised |-> Some(body[k])]]

\* InstallOutcomes when a version given is installed whatever `install` says
InstallOutcomesVersionInstalls ==
    IF install \/ Truthy(version)
    THEN IF install_type = "packages"
         THEN Outcomes(<<Call("install_packages", <<package_name, version>>)>>)
         ELSE IF install_type = "aio"
              THEN install_puppet_aio(aio_install_url, version, collection, cleanup)
              ELSE Outcomes(<<>>)
    ELSE Outcomes(<<>>)

\* InstallOutcomes when the distribution package is installed before the script
InstallOutcomesPackageFirst ==
    IF install /\ install_type \in {"packages", "aio"}
    THEN Outcomes(<<Call("install_packages", <<package_name, version>>)>>
                    \o (IF install_type = "aio"
                        THEN AioCalls(aio_install_url, version, collection, cleanup)
                        ELSE <<>>))
    ELSE Outcomes(<<>>)

\* the external calls of the installation step, with their outcomes
InstallOutcomes ==
    IF ~install /\ Truthy(version) THEN Outcomes(<<>>)
    ELSE IF install
         THEN IF install_type = "packages"
              THEN Outcomes(<<Call("install_packages", <<package_name, version>>)>>)
              ELSE IF install_type = "aio"
                   THEN install_puppet_aio(aio_install_url, version, collection, cleanup)
                   ELSE Outcomes(<<>>)
         ELSE Outcomes(<<>>)

WarnVersionIgnored == "Puppet install set to false but version supplied, doing nothing."

WarnUnknownInstallType == "Unknown puppet install type"

\* the warnings of the installation step
InstallWarnings ==
    IF ~install /\ Truthy(version) THEN <<WarnVersionIgnored>>
    ELSE IF install /\ install_type # "packages" /\ install_type # "aio"
         THEN <<WarnUnknownInstallType>>
         ELSE <<>>

\* RunAfterInstall when any unknown install_type switches the agent run off
RunOffWhenUnknownType ==
    IF install_type # "packages" /\ install_type # "aio" THEN FALSE ELSE exec

\* RunAfterInstall without the `run = False` of line 228
RunKeepsExec == exec

\* the value of `run` after the installation step
RunAfterInstall ==
    IF ~(~install /\ Truthy(version)) /\ install
            /\ install_type # "packages" /\ install_type # "aio"
    THEN FALSE
    ELSE exec

(***************************************************************************)
(* Path resolution (handle, lines 230-238, and get_config_value).          *)
(***************************************************************************)
\* the command of get_config_value
ConfigPrintCall(bin, setting) == Call("subp", <<bin, "config", "print", setting>>)

\* the value get_config_value returns
get_config_value(bin, setting) == Str(Rstrip(ConfigPrint(bin, setting)))

\* the queries made: the default of each get_cfg_option_str is an argument,
\* evaluated before the call whether or not the key is there
PathCalls ==
    <<ConfigPrintCall(puppet_bin, "config"),
      ConfigPrintCall(puppet_bin, "ssldir"),
      ConfigPrintCall(puppet_bin, "csr_attributes")>>

conf_file == get_cfg_option_str(puppet_cfg, "conf_file", get_config_value(puppet_bin, "config"))

ssl_dir == get_cfg_option_str(puppet_cfg, "ssl_dir", get_config_value(puppet_bin, "ssldir"))

csr_attributes_path ==
    get_cfg_option_str(puppet_cfg, "csr_attributes_path",
                       get_config_value(puppet_bin, "csr_attributes"))

\* class PuppetConstants
PuppetConstants(puppet_conf_file, puppet_ssl_dir, csr_path) ==
    [conf_path |-> puppet_conf_file,
     ssl_dir |-> puppet_ssl_dir,
     ssl_cert_dir |-> PathJoin(puppet_ssl_dir, "certs"),
     ssl_cert_path |-> PathJoin(PathJoin(puppet_ssl_dir, "certs"), "ca.pem"),
     csr_attributes_path |-> csr_path]

(***************************************************************************)
(* Configuration update (handle, lines 240-291).                           *)
(***************************************************************************)
\* puppet_cfg['conf'].items(), in document order: each a record of the name, the
\* mapping under it (items) and, for a name that holds a string, the string (text)
conf == puppet_cfg.conf[1]

\* CertCalls when ssl_dir is given its owner before it is created
CertCallsChownFirst(p, user, payload) ==
    <<Call("chownbyname", <<p.ssl_dir, user, "root">>),
      Call("ensure_dir", <<p.ssl_dir, Some(SslDirMode)>>),
      Call("ensure_dir", <<p.ssl_cert_dir, None>>),
      Call("chownbyname", <<p.ssl_cert_dir, user, "root">>),
      Call("write_file", <<p.ssl_cert_path, payload, None>>),
      Call("chownbyname", <<p.ssl_cert_path, user, "root">>)>>

\* the certificate written for cfg_name == 'ca_cert' (lines 261-268)
CertCalls(p, user, payload) ==
    <<Call("ensure_dir", <<p.ssl_dir, Some(SslDirMode)>>),
      Call("chownbyname", <<p.ssl_dir, user, "root">>),
      Call("ensure_dir", <<p.ssl_cert_dir, None>>),
      Call("chownbyname", <<p.ssl_cert_dir, user, "root">>),
      Call("write_file", <<p.ssl_cert_path, payload, None>>),
      Call("chownbyname", <<p.ssl_cert_path, user, "root">>)>>

\* ItemValue without the v.lower() of line 280
ItemValueNotLowered(o, v) ==
    IF o = "certname"
    THEN Replace(Replace(v, <<"%", "f">>, Fqdn), <<"%", "i">>, InstanceId)
    ELSE v

\* the value given to puppet_config.set for option o (lines 273-280)
ItemValue(o, v) ==
    IF o = "certname"
    THEN Lower(Replace(Replace(v, <<"%", "f">>, Fqdn), <<"%", "i">>, InstanceId))
    ELSE v

RECURSIVE SetItems(_, _, _)
\* for (o, v) in cfg.items(): puppet_config.set(cfg_name, o, v)
SetItems(config, cfg_name, items) ==
    IF items = <<>> THEN config
    ELSE SetItems(ConfigSet(config, cfg_name, items[1][1], ItemValue(items[1][1], items[1][2])),
                  cfg_name, Tail(items))

\* SectionConfig when the section is rebuilt from the document alone
SectionConfigRebuilt(config, item) ==
    IF item.name = "ca_cert" THEN config
    ELSE SetItems([k \in DOMAIN config |->
                        IF config[k].name = item.name THEN [config[k] EXCEPT !.items = <<>>]
                        ELSE config[k]],
                  item.name, item.items)

\* puppet_config after the loop body for one (cfg_name, cfg)
SectionConfig(config, item) ==
    IF item.name = "ca_cert" THEN config ELSE SetItems(config, item.name, item.items)

\* the rename and the write that end the loop body (lines 284-286)
RewriteCalls(p, config) ==
    <<Call("rename", <<p.conf_path, p.conf_path \o ".old">>),
      Call("write_file", <<p.conf_path, Stringify(config), None>>)>>

\* the external calls of the loop body for one (cfg_name, cfg)
SectionCalls(p, user, config, item) ==
    (IF item.name = "ca_cert" THEN CertCalls(p, user, item.text) ELSE <<>>)
        \o RewriteCalls(p, SectionConfig(config, item))

\* CsrCalls when csr_attributes is written only in a run that has a conf key
CsrCallsWithConf(p) ==
    IF HasKey(puppet_cfg, "csr_attributes") /\ HasKey(puppet_cfg, "conf")
    THEN <<Call("write_file",
                <<p.csr_attributes_path, YamlDump(puppet_cfg.csr_attributes[1]), None>>)>>
    ELSE <<>>

\* the write of csr_attributes (lines 288-291)
CsrCalls(p) ==
    IF HasKey(puppet_cfg, "csr_attributes")
    THEN <<Call("write_file",
                <<p.csr_attributes_path, YamlDump(puppet_cfg.csr_attributes[1]), None>>)>>
    ELSE <<>>

(***************************************************************************)
(* Activation (_autostart_puppet and handle, lines 293-316).               *)
(***************************************************************************)
\* AutostartCalls when every strategy whose path exists is carried out
AutostartCallsAll(exists) ==
    (IF "/etc/default/puppet" \in exists
     THEN <<Call("subp", <<"sed", "-i", "-e", "s/^START=.*/START=yes/", "/etc/default/puppet">>)>>
     ELSE <<>>)
        \o (IF "/bin/systemctl" \in exists
            THEN <<Call("subp", <<"/bin/systemctl", "enable", "puppet.service">>)>>
            ELSE <<>>)
        \o (IF "/sbin/chkconfig" \in exists
            THEN <<Call("subp", <<"/sbin/chkconfig", "puppet", "on">>)>>
            ELSE <<>>)

\* _autostart_puppet: the enable command, by what exists
AutostartCalls(exists) ==
    IF "/etc/default/puppet" \in exists
    THEN <<Call("subp", <<"sed", "-i", "-e", "s/^START=.*/START=yes/", "/etc/default/puppet">>)>>
    ELSE IF "/bin/systemctl" \in exists
         THEN <<Call("subp", <<"/bin/systemctl", "enable", "puppet.service">>)>>
         ELSE IF "/sbin/chkconfig" \in exists
              THEN <<Call("subp", <<"/sbin/chkconfig", "puppet", "on">>)>>
              ELSE <<>>

WarnNoAutostart == "Sorry we do not know how to enable puppet services on this system"

AutostartWarnings(exists) ==
    IF exists \cap AutostartPaths = {} THEN <<WarnNoAutostart>> ELSE <<>>

\* the words of a str exec_args, as command arguments
SplitArgs(s) == [k \in 1..Len(Split(s)) |-> Str(Split(s)[k])]

\* AgentArgs when the default is used for an exec_args that gives no argument
AgentArgsDefaultIfEmpty ==
    IF HasKey(puppet_cfg, "exec_args")
    THEN LET cmd_args == puppet_cfg.exec_args[1]
             given == IF cmd_args.type \in {"list", "tuple"} THEN cmd_args.value
                      ELSE IF cmd_args.type = "str" THEN SplitArgs(cmd_args.value)
                      ELSE <<>>
         IN  IF given = <<>> THEN PUPPET_AGENT_DEFAULT_ARGS ELSE given
    ELSE PUPPET_AGENT_DEFAULT_ARGS

\* AgentArgs when a str exec_args is passed as one argument
AgentArgsUnsplit ==
    IF HasKey(puppet_cfg, "exec_args")
    THEN LET cmd_args == puppet_cfg.exec_args[1]
         IN  IF cmd_args.type \in {"list", "tuple"} THEN cmd_args.value
             ELSE IF cmd_args.type = "str" THEN <<Str(cmd_args.value)>>
             ELSE PUPPET_AGENT_DEFAULT_ARGS
    ELSE PUPPET_AGENT_DEFAULT_ARGS

\* what cmd is extended with (lines 300-312)
AgentArgs ==
    IF HasKey(puppet_cfg, "exec_args")
    THEN LET cmd_args == puppet_cfg.exec_args[1]
         IN  IF cmd_args.type \in {"list", "tuple"} THEN cmd_args.value
             ELSE IF cmd_args.type = "str" THEN SplitArgs(cmd_args.value)
             ELSE PUPPET_AGENT_DEFAULT_ARGS
    ELSE PUPPET_AGENT_DEFAULT_ARGS

AgentCmd == <<puppet_bin, "agent">> \o AgentArgs

WarnUnknownExecArgs == "Unknown type provided for puppet 'exec_args' expected list, tuple, or string"

AgentWarnings ==
    IF HasKey(puppet_cfg, "exec_args")
            /\ puppet_cfg.exec_args[1].type \notin {"list", "tuple", "str"}
    THEN <<WarnUnknownExecArgs>>
    ELSE <<>>

\* AgentCalls when the service is started before the agent is run
AgentCallsAfterService(r) ==
    IF r THEN <<Call("subp", <<"service", "puppet", "start">>), Call("subp", AgentCmd)>> ELSE <<>>

\* the agent run, when `run` is true
AgentCalls(r) == IF r THEN <<Call("subp", AgentCmd)>> ELSE <<>>

ServiceCmd == <<"service", "puppet", "start">>

\* ServiceCalls when the service is started only after an installation
ServiceCallsIfInstalled == IF install THEN <<Call("subp", ServiceCmd)>> ELSE <<>>

ServiceCalls == <<Call("subp", ServiceCmd)>>

(***************************************************************************)
(* The configurations and machines the handler is started on.              *)
(***************************************************************************)
BaseCfg ==
    [install |-> None, version |-> None, collection |-> None, install_type |-> None,
     cleanup |-> None, exec |-> None, aio_install_url |-> None, package_name |-> None,
     conf_file |-> None, ssl_dir |-> None, csr_attributes_path |-> None,
     conf |-> None, csr_attributes |-> None, exec_args |-> None]

Bools == {None, Some(TRUE), Some(FALSE)}

\* a version, when given, is a non-empty string
Versions == {None, Some("6.0.0")}

InstallTypes == {None, Some("packages"), Some("aio"), Some("bogus")}

Pem == <<"P", "E", "M">>

CsrDocs == {None, Some(<< <<"pp_uuid", "ED80">> >>)}

\* the value a document gives to a key of a conf section
KeyValue(key) ==
    CASE key = "server" -> <<"%", "f", ".", "H">>
      [] key = "certname" -> <<"%", "i", ".", "%", "f">>
      [] OTHER -> Pem

ConfKeys == {"server", "certname", "ca_cert"}

SectionNames == {"main", "agent", "ca_cert"}

\* the mappings a conf section may hold
Entries ==
    {[j \in 1..Len(ks) |-> <<ks[j], KeyValue(ks[j])>>] : ks \in DistinctSeqsUpTo(ConfKeys, MaxKeys)}

SectionItems(name) ==
    IF name = "ca_cert" THEN {[name |-> name, items |-> <<>>, text |-> Pem]}
    ELSE {[name |-> name, items |-> e, text |-> <<>>] : e \in Entries}

RECURSIVE ConfsNamed(_)
\* the conf documents whose sections are named ns, in that order
ConfsNamed(ns) ==
    IF ns = <<>> THEN {<<>>}
    ELSE {<<h>> \o t : h \in SectionItems(Head(ns)), t \in ConfsNamed(Tail(ns))}

Confs == UNION {ConfsNamed(ns) : ns \in DistinctSeqsUpTo(SectionNames, MaxSections)}

SimpleConf ==
    <<[name |-> "agent", items |-> << <<"server", KeyValue("server")>> >>, text |-> <<>>]>>

NameChars == {"%", "f", "i", "H"}

\* one section that gives the same value to certname and to server
NameConfs ==
    {<<[name |-> "agent", items |-> << <<"certname", t>>, <<"server", t>> >>, text |-> <<>>]>> :
        t \in SeqsUpTo(NameChars, MaxNameChars)}

ArgWords == {"--noop", "-v"}

ArgChars == {" ", "a", "b"}

ExecArgs ==
    {None, Some([type |-> "int", value |-> <<"5">>])}
        \cup {Some([type |-> "list", value |-> l]) : l \in SeqsUpTo(ArgWords, MaxArgs)}
        \cup {Some([type |-> "tuple", value |-> l]) : l \in {<<>>, <<"--noop">>}}
        \cup {Some([type |-> "str", value |-> t]) : t \in SeqsUpTo(ArgChars, MaxArgChars)}

\* puppet.conf as found: empty, two sections, one section without a last blank line
Texts ==
    {<<>>,
     <<SectionLine("main"), Indented(OptionLine("server", <<"o">>)),
       OptionLine("vardir", <<"v">>), BlankLine,
       SectionLine("agent"), OptionLine("certname", <<"o">>), BlankLine>>,
     <<SectionLine("agent"), OptionLine("server", <<"o">>)>>}

StaleText == <<SectionLine("user"), BlankLine>>

BaseEnv == [text |-> <<SectionLine("agent"), OptionLine("server", <<"o">>)>>,
            old |-> None, exists |-> {"/bin/systemctl"}]

\* a puppet.conf.old is there from an earlier run when puppet.conf is not empty
ConfEnvs ==
    {[BaseEnv EXCEPT !.text = t, !.old = IF t = <<>> THEN None ELSE Some(StaleText)] :
        t \in Texts}

AutostartEnvs == {[BaseEnv EXCEPT !.exists = e] : e \in SUBSET AutostartPaths}

\* installation against the later steps
InstallCfgs ==
    {[BaseCfg EXCEPT !.install = i, !.version = v, !.install_type = t, !.package_name = n,
                     !.exec = x, !.exec_args = a, !.conf = c, !.csr_attributes = r] :
        i \in Bools, v \in Versions, t \in InstallTypes, n \in {None, Some("puppet6")},
        x \in {None, Some(TRUE)}, a \in {None, Some([type |-> "int", value |-> <<"5">>])},
        c \in {None, Some(SimpleConf)}, r \in CsrDocs}

\* the arguments of the install script
AioCfgs ==
    {[BaseCfg EXCEPT !.install_type = Some("aio"), !.version = v, !.collection = c,
                     !.cleanup = k, !.aio_install_url = u] :
        v \in Versions, c \in {None, Some("puppet7")}, k \in Bools,
        u \in {None, Some("https://example.org/install.sh")}}

\* explicit and queried paths
PathCfgs ==
    {[BaseCfg EXCEPT !.install = Some(FALSE), !.install_type = t, !.conf_file = f,
                     !.ssl_dir = d, !.csr_attributes_path = p, !.conf = c,
                     !.csr_attributes = r] :
        t \in {None, Some("aio"), Some("bogus")}, f \in {None, Some("/custom/puppet.conf")},
        d \in {None, Some("/custom/ssl")}, p \in {None, Some("/custom/csr.yaml")},
        c \in {None, Some(<<[name |-> "ca_cert", items |-> <<>>, text |-> Pem]>>)}, r \in CsrDocs}

\* the agent run
ExecCfgs ==
    {[BaseCfg EXCEPT !.install = i, !.install_type = t, !.exec = x, !.exec_args = a] :
        i \in {None, Some(FALSE)}, t \in {None, Some("aio"), Some("bogus")},
        x \in Bools, a \in ExecArgs}

\* the conf documents
ConfCfgs ==
    {[BaseCfg EXCEPT !.install = Some(FALSE), !.conf = Some(c)] : c \in Confs \cup NameConfs}

ActivationCfgs ==
    {[BaseCfg EXCEPT !.install = Some(FALSE), !.exec = x] : x \in {None, Some(TRUE)}}

Scenarios ==
    {[cfg |-> Some(c), env |-> BaseEnv] : c \in InstallCfgs \cup AioCfgs \cup PathCfgs \cup ExecCfgs}
        \cup {[cfg |-> Some(c), env |-> e] : c \in ConfCfgs, e \in ConfEnvs}
        \cup {[cfg |-> Some(c), env |-> e] : c \in ActivationCfgs, e \in AutostartEnvs}
        \cup {[cfg |-> None, env |-> e] : e \in ConfEnvs \cup AutostartEnvs}

\* the paths puppet.conf may be at
ConfCandidates ==
    {"/etc/puppet/puppet.conf", "/etc/puppetlabs/puppet/puppet.conf", "/custom/puppet.conf"}

EmptyMap == [x \in {} |-> x]

InitialFs(e) ==
    [files |-> [p \in ConfCandidates \cup (IF IsNone(e.old) THEN {}
                                          ELSE {c \o ".old" : c \in ConfCandidates}) |->
                    IF p \in ConfCandidates THEN e.text ELSE e.old[1]],
     dirs |-> EmptyMap,
     owner |-> EmptyMap]

Init ==
    \E sc \in Scenarios :
        /\ cfg = sc.cfg
        /\ env = sc.env
        /\ pc = "start"
        /\ run = FALSE
        /\ p_constants = None
        /\ puppet_config = <<>>
        /\ idx = 0
        /\ fs = InitialFs(sc.env)
        /\ calls = <<>>
        /\ raised = None
        /\ warnings = <<>>

(***************************************************************************)
(* handle, step by step.  A step makes its external calls in order; when   *)
(* one raises the handler is left at once.                                 *)
(***************************************************************************)
\* Step when the handler goes on to the next step after a call has raised
StepContinues(o, next) ==
    /\ calls' = calls \o o.made
    /\ fs' = Effects(fs, o.done)
    /\ raised' = o.raised
    /\ pc' = next

\* the calls of outcome o are made on the way from pc to `next`
Step(o, next) ==
    /\ calls' = calls \o o.made
    /\ fs' = Effects(fs, o.done)
    /\ raised' = o.raised
    /\ pc' = IF IsNone(o.raised) THEN next ELSE "failed"

\* SkipModule when the service is started although there is no 'puppet' key
SkipModuleStartsService ==
    /\ pc = "start"
    /\ ~HasPuppet
    /\ Step(Outcome(ServiceCalls, 1), "done")
    /\ UNCHANGED <<cfg, env, run, p_constants, puppet_config, idx, warnings>>

\* lines 186-189: no 'puppet' key
SkipModule ==
    /\ pc = "start"
    /\ ~HasPuppet
    /\ pc' = "done"
    /\ UNCHANGED <<cfg, env, run, p_constants, puppet_config, idx, fs, calls, raised, warnings>>

\* lines 191-228
Install ==
    /\ pc = "start"
    /\ HasPuppet
    /\ LET os == InstallOutcomes
       IN  \E k \in DOMAIN os : Step(os[k], "paths")
    /\ warnings' = warnings \o InstallWarnings
    /\ run' = RunAfterInstall
    /\ UNCHANGED <<cfg, env, p_constants, puppet_config, idx>>

\* lines 230-238
ResolvePaths ==
    /\ pc = "paths"
    /\ LET os == Outcomes(PathCalls)
       IN  \E k \in DOMAIN os : Step(os[k], "conf")
    /\ p_constants' = IF pc' = "conf"
                      THEN Some(PuppetConstants(conf_file, ssl_dir, csr_attributes_path))
                      ELSE p_constants
    /\ UNCHANGED <<cfg, env, run, puppet_config, idx, warnings>>

\* lines 241-254: read puppet.conf into the parser, when there is a conf key
LoadConf ==
    /\ pc = "conf"
    /\ IF HasKey(puppet_cfg, "conf")
       THEN /\ LET os == Outcomes(<<Call("load_file", <<p_constants[1].conf_path>>)>>)
               IN  \E k \in DOMAIN os : Step(os[k], IF conf = <<>> THEN "csr" ELSE "loop")
            /\ puppet_config' = IF pc' = "failed" THEN puppet_config
                                ELSE ReadFile(CleanLines(fs.files[p_constants[1].conf_path]))
            /\ idx' = IF pc' = "failed" THEN idx ELSE 1
       ELSE /\ pc' = "csr"
            /\ UNCHANGED <<puppet_config, idx, fs, calls, raised>>
    /\ UNCHANGED <<cfg, env, run, p_constants, warnings>>

\* lines 255-286: the loop body for conf[idx]
ConfSection ==
    /\ pc = "loop"
    /\ LET os == Outcomes(SectionCalls(p_constants[1], puppet_user, puppet_config, conf[idx]))
       IN  \E k \in DOMAIN os : Step(os[k], IF idx = Len(conf) THEN "csr" ELSE "loop")
    /\ puppet_config' = SectionConfig(puppet_config, conf[idx])
    /\ idx' = IF pc' = "failed" THEN idx ELSE idx + 1
    /\ UNCHANGED <<cfg, env, run, p_constants, warnings>>

\* lines 288-291
WriteCsrAttributes ==
    /\ pc = "csr"
    /\ LET os == Outcomes(CsrCalls(p_constants[1]))
       IN  \E k \in DOMAIN os : Step(os[k], "autostart")
    /\ UNCHANGED <<cfg, env, run, p_constants, puppet_config, idx, warnings>>

\* line 294
Autostart ==
    /\ pc = "autostart"
    /\ LET os == Outcomes(AutostartCalls(env.exists))
       IN  \E k \in DOMAIN os : Step(os[k], "run")
    /\ warnings' = warnings \o AutostartWarnings(env.exists)
    /\ UNCHANGED <<cfg, env, run, p_constants, puppet_config, idx>>

\* lines 297-313
RunAgent ==
    /\ pc = "run"
    /\ LET os == Outcomes(AgentCalls(run))
       IN  \E k \in DOMAIN os : Step(os[k], "service")
    /\ warnings' = warnings \o (IF run THEN AgentWarnings ELSE <<>>)
    /\ UNCHANGED <<cfg, env, run, p_constants, puppet_config, idx>>

\* line 316
StartService ==
    /\ pc = "service"
    /\ LET os == Outcomes(ServiceCalls)
       IN  \E k \in DOMAIN os : Step(os[k], "done")
    /\ UNCHANGED <<cfg, env, run, p_constants, puppet_config, idx, warnings>>

Next ==
    \/ SkipModule
    \/ Install
    \/ ResolvePaths
    \/ LoadConf
    \/ ConfSection
    \/ WriteCsrAttributes
    \/ Autostart
    \/ RunAgent
    \/ StartService

Spec == Init /\ [][Next]_vars

(***************************************************************************)
(* Vocabulary of the properties.                                           *)
(***************************************************************************)
\* the positions of the calls of kind op
CallsOf(op) == {k \in DOMAIN calls : calls[k].op = op}

\* the positions of the commands run whose words satisfy P
IsSubp(c, argv) == c.op = "subp" /\ c.args = argv

IsServiceStart(c) == IsSubp(c, ServiceCmd)

IsAgentRun(c) == c.op = "subp" /\ Len(c.args) >= 2 /\ c.args[1] = puppet_bin /\ c.args[2] = "agent"

IsConfigPrint(c) ==
    c.op = "subp" /\ Len(c.args) = 4 /\ c.args[2] = "config" /\ c.args[3] = "print"

IsScriptRun(c) == c.op = "subp" /\ c.args[1] = TmpFile

IsWriteTo(c, path) == c.op = "write_file" /\ c.args[1] = path

ServiceStarts == {k \in DOMAIN calls : IsServiceStart(calls[k])}

AgentRuns == {k \in DOMAIN calls : IsAgentRun(calls[k])}

ScriptRuns == {k \in DOMAIN calls : IsScriptRun(calls[k])}

\* the handler is past the installation step and no call of that step raised
PastInstall == pc \in {"paths", "conf", "loop", "csr", "autostart", "run", "service", "done"}

\* the handler is past the loop over conf and no call so far raised
PastConf == pc \in {"csr", "autostart", "run", "service", "done"}

\* the paths of this run, as handle computes them
Paths == PuppetConstants(conf_file, ssl_dir, csr_attributes_path)

UnknownInstallType == install_type # "packages" /\ install_type # "aio"

\* the name of the section that line i of a puppet.conf text belongs to
SectionOfLine(lines, i) ==
    LET heads == {j \in 1..i : lines[j].kind = "section"}
    IN  lines[CHOOSE j \in heads : \A h \in heads : h <= j].name

\* the positions of the option lines of section s, and of its option k
OptionLinesOf(lines, s) ==
    {i \in DOMAIN lines : lines[i].kind = "option" /\ SectionOfLine(lines, i) = s}

OptionLinesFor(lines, s, k) == {i \in OptionLinesOf(lines, s) : lines[i].name = k}

\* the elements of a set of positions, in increasing order
Sorted(S) ==
    [n \in 1..Cardinality(S) |-> CHOOSE i \in S : Cardinality({j \in S : j < i}) = n - 1]

\* the section names of a text, in order
SectionsIn(lines) ==
    LET S == {i \in DOMAIN lines : lines[i].kind = "section"}
    IN  [n \in 1..Cardinality(S) |-> lines[Sorted(S)[n]].name]

\* the option names of section s of a text, in order
KeysIn(lines, s) ==
    LET S == OptionLinesOf(lines, s)
    IN  [n \in 1..Cardinality(S) |-> lines[Sorted(S)[n]].name]

\* the sections of conf that hold a mapping, and those that give it a key
MappingSections == {k \in DOMAIN conf : conf[k].name # "ca_cert"}

\* C1 (as claimed): when a section of conf holds a key ca_cert, then once handle
\* has completed the text written to conf_path has no ca_cert option in any
\* section and the file at ssl_cert_path holds exactly the PEM payload.
C1_CaCertKeyDiverted ==
    (pc = "done" /\ HasPuppet /\ HasKey(puppet_cfg, "conf"))
        => \A k \in MappingSections :
             \A j \in DOMAIN conf[k].items :
                conf[k].items[j][1] = "ca_cert"
                    => /\ \A i \in DOMAIN fs.files[Paths.conf_path] :
                            fs.files[Paths.conf_path][i].name # "ca_cert"
                       /\ IsFile(fs, Paths.ssl_cert_path)
                       /\ fs.files[Paths.ssl_cert_path] = conf[k].items[j][2]

\* the value of conf after every section has been set, from parser `config`
RECURSIVE Merged(_, _)
Merged(config, items) ==
    IF items = <<>> THEN config ELSE Merged(SectionConfig(config, Head(items)), Tail(items))

\* C2 (as claimed, for a conf of at least one section): conf_path is renamed to
\* conf_path.old and written exactly once per run, after every section has been
\* processed, so that at the end conf_path.old holds what conf_path held at the
\* start and conf_path holds the merge of all the sections.
C2_RewrittenOnceAfterAllSections ==
    (pc = "done" /\ HasPuppet /\ HasKey(puppet_cfg, "conf") /\ conf # <<>>)
        => /\ Cardinality(CallsOf("rename")) = 1
           /\ Cardinality({k \in DOMAIN calls : IsWriteTo(calls[k], Paths.conf_path)}) = 1
           /\ fs.files[Paths.conf_path \o ".old"] = env.text
           /\ fs.files[Paths.conf_path] = Stringify(Merged(ReadFile(CleanLines(env.text)), conf))

\* C3: with install true and an install_type that is neither packages nor aio,
\* the run calls no package installer and fetches or runs no install script,
\* logs the warning, does not run the agent even when exec is true, and goes on:
\* it stops early only when an external call of a later step raises, and a
\* completed run has queried the paths, rewritten puppet.conf for each conf
\* section, enabled the service and started it last.
C3_UnknownInstallType ==
    (HasPuppet /\ pc # "start" /\ install /\ UnknownInstallType)
        => /\ CallsOf("install_packages") = {}
           /\ CallsOf("readurl") = {}
           /\ CallsOf("mkdtemp") = {}
           /\ ScriptRuns = {}
           /\ Len(warnings) >= 1 /\ warnings[1] = WarnUnknownInstallType
           /\ ~run
           /\ AgentRuns = {}
           /\ pc = "failed" => (~IsNone(raised) /\ calls # <<>> /\ calls[Len(calls)] = raised[1])
           /\ PastInstall \/ pc = "failed"
           /\ pc = "done" =>
                /\ SubSeq(calls, 1, 3) = PathCalls
                /\ HasKey(puppet_cfg, "conf") =>
                      Cardinality({k \in DOMAIN calls : IsWriteTo(calls[k], Paths.conf_path)})
                          = Len(conf)
                /\ \E k \in DOMAIN calls :
                      SubSeq(calls, k, k + Len(AutostartCalls(env.exists)) - 1)
                          = AutostartCalls(env.exists)
                /\ IsServiceStart(calls[Len(calls)])

C3_Witness ==
    /\ pc = "done" /\ HasPuppet /\ install /\ install_type = "bogus" /\ exec
    /\ HasKey(puppet_cfg, "conf")
    /\ IsServiceStart(calls[Len(calls)])

\* C4: in a run with the puppet key in which no external call raises, the
\* command `service puppet start` is run exactly once and is the last external
\* call; at no time has it been run more than once or been followed by a call.
C4_ServiceStartLast ==
    HasPuppet
        => /\ Cardinality(ServiceStarts) <= 1
           /\ \A k \in ServiceStarts : k = Len(calls)
           /\ pc = "done" => ServiceStarts = {Len(calls)}

C4_Witness ==
    /\ pc = "done" /\ HasPuppet /\ ~install /\ ~exec
    /\ ~HasKey(puppet_cfg, "conf") /\ ~HasKey(puppet_cfg, "csr_attributes")
    /\ ServiceStarts = {Len(calls)}

\* the keys that conf gives to section s, in document order
NamedKeys(s) ==
    LET ks == {k \in MappingSections : conf[k].name = s}
    IN  IF ks = {} THEN <<>>
        ELSE LET items == conf[CHOOSE k \in ks : TRUE].items
             IN  [j \in DOMAIN items |-> items[j][1]]

\* the value conf gives to key o of section s
NamedValue(s, o) ==
    LET items == conf[CHOOSE k \in MappingSections : conf[k].name = s].items
    IN  items[CHOOSE j \in DOMAIN items : items[j][1] = o][2]

InSeq(x, seq) == \E n \in DOMAIN seq : seq[n] = x

\* the names of the sections that conf gives a key to, in document order
SetSections ==
    LET S == {k \in MappingSections : conf[k].items # <<>>}
    IN  [n \in 1..Cardinality(S) |-> conf[Sorted(S)[n]].name]

\* the members of seq that are not in `known`, in order
NewIn(seq, known) ==
    LET S == {n \in DOMAIN seq : ~InSeq(seq[n], known)}
    IN  [n \in 1..Cardinality(S) |-> seq[Sorted(S)[n]]]

\* C5: after the merge the written puppet.conf holds the sections it held, in
\* their order, followed by the sections new in conf in document order; each
\* section holds the keys it held, in their order, followed by the keys new in
\* conf; a key named in conf has the document's final value and every other
\* key the value it had.
C5_MergePreserves ==
    (HasPuppet /\ PastConf /\ HasKey(puppet_cfg, "conf"))
        => LET old == env.text
               new == fs.files[Paths.conf_path]
           IN  /\ SectionsIn(new) = SectionsIn(old) \o NewIn(SetSections, SectionsIn(old))
               /\ \A n \in DOMAIN SectionsIn(new) :
                    LET s == SectionsIn(new)[n]
                    IN  /\ KeysIn(new, s) = KeysIn(old, s) \o NewIn(NamedKeys(s), KeysIn(old, s))
                        /\ \A i \in OptionLinesOf(new, s) :
                             new[i].value =
                                IF InSeq(new[i].name, NamedKeys(s))
                                THEN ItemValue(new[i].name, NamedValue(s, new[i].name))
                                ELSE old[CHOOSE h \in OptionLinesFor(old, s, new[i].name) : TRUE].value

C5_Witness ==
    /\ HasPuppet /\ pc = "done" /\ HasKey(puppet_cfg, "conf")
    /\ SectionsIn(env.text) = <<"main", "agent">>
    /\ SectionsIn(fs.files[Paths.conf_path]) = <<"main", "agent">>
    /\ KeysIn(fs.files[Paths.conf_path], "main") = <<"server", "vardir", "certname">>
    /\ fs.files[Paths.conf_path][2].value = KeyValue("server")

SettingKey(setting) ==
    CASE setting = "config" -> "conf_file"
      [] setting = "ssldir" -> "ssl_dir"
      [] OTHER -> "csr_attributes_path"

\* C6 (as claimed): the agent binary is queried only for a path that the
\* document does not give, so a document that gives all three makes no query;
\* the path used is the document's when it gives one.
C6_QueriesOnlyUnsetPaths ==
    HasPuppet
        => /\ \A k \in DOMAIN calls :
                IsConfigPrint(calls[k]) => ~HasKey(puppet_cfg, SettingKey(calls[k].args[4]))
           /\ ~IsNone(p_constants) =>
                /\ HasKey(puppet_cfg, "conf_file") =>
                        p_constants[1].conf_path = puppet_cfg.conf_file[1]
                /\ HasKey(puppet_cfg, "ssl_dir") => p_constants[1].ssl_dir = puppet_cfg.ssl_dir[1]
                /\ HasKey(puppet_cfg, "csr_attributes_path") =>
                        p_constants[1].csr_attributes_path = puppet_cfg.csr_attributes_path[1]

RECURSIVE AllSectionCalls(_, _)
\* the external calls of the loop over `items`, starting from parser `config`
AllSectionCalls(config, items) ==
    IF items = <<>> THEN <<>>
    ELSE SectionCalls(Paths, puppet_user, config, Head(items))
            \o AllSectionCalls(SectionConfig(config, Head(items)), Tail(items))

\* the external calls of the steps after installation when none raises and the
\* agent run is decided by exec: none of them reads install or version
LaterCalls ==
    PathCalls
        \o (IF HasKey(puppet_cfg, "conf")
            THEN <<Call("load_file", <<Paths.conf_path>>)>>
                    \o AllSectionCalls(ReadFile(CleanLines(env.text)), conf)
            ELSE <<>>)
        \o CsrCalls(Paths)
        \o AutostartCalls(env.exists)
        \o AgentCalls(exec)
        \o ServiceCalls

\* C7: with install false and a version given, the warning is logged, no
\* package installer is called and no install script is fetched or run, and
\* the later steps are carried out as without a version: a completed run has
\* made exactly the calls of path resolution, conf merge, csr_attributes write,
\* autostart, agent run (when exec) and service start, with their effects.
C7_VersionWithoutInstall ==
    (HasPuppet /\ pc # "start" /\ ~install /\ HasKey(puppet_cfg, "version"))
        => /\ warnings # <<>> /\ warnings[1] = WarnVersionIgnored
           /\ Cardinality({k \in DOMAIN warnings : warnings[k] = WarnVersionIgnored}) = 1
           /\ CallsOf("install_packages") = {}
           /\ CallsOf("readurl") = {}
           /\ CallsOf("mkdtemp") = {}
           /\ ScriptRuns = {}
           /\ run = exec
           /\ pc = "done" => (calls = LaterCalls /\ fs = Effects(InitialFs(env), LaterCalls))

C7_Witness ==
    /\ HasPuppet /\ pc = "done" /\ ~install /\ HasKey(puppet_cfg, "version")
    /\ HasKey(puppet_cfg, "conf") /\ HasKey(puppet_cfg, "csr_attributes")
    /\ warnings[1] = WarnVersionIgnored
    /\ \E k \in DOMAIN calls : IsWriteTo(calls[k], Paths.csr_attributes_path)

\* C8: the installation step makes at most one installation and never both
\* kinds: with install true and install_type packages the package installer is
\* called exactly once, with (package_name, version), and no script is fetched;
\* with install true and install_type aio the script is fetched exactly once
\* and, once the step is over, has been run exactly once, and the package
\* installer is not called; with install false neither happens.
C8_OneInstallation ==
    (HasPuppet /\ pc # "start")
        => /\ Cardinality(CallsOf("install_packages")) + Cardinality(CallsOf("readurl")) <= 1
           /\ Cardinality(ScriptRuns) <= 1
           /\ (install /\ install_type = "packages") =>
                /\ CallsOf("install_packages") = {1}
                /\ calls[1].args =
                      <<IF HasKey(puppet_cfg, "package_name") THEN puppet_cfg.package_name[1]
                        ELSE "puppet",
                        puppet_cfg.version>>
                /\ CallsOf("readurl") = {} /\ ScriptRuns = {}
           /\ (install /\ install_type = "aio") =>
                /\ CallsOf("install_packages") = {}
                /\ CallsOf("readurl") = {1}
                /\ PastInstall => Cardinality(ScriptRuns) = 1
           /\ ~install =>
                (CallsOf("install_packages") = {} /\ CallsOf("readurl") = {} /\ ScriptRuns = {})

C8_Witness ==
    /\ HasPuppet /\ pc = "done" /\ install /\ install_type = "aio"
    /\ Cardinality(ScriptRuns) = 1
    /\ CallsOf("install_packages") = {}

\* the positions at which a word of s starts, and where the word ends
WordStarts(s) == {i \in DOMAIN s : s[i] \notin Whitespace /\ (i = 1 \/ s[i - 1] \in Whitespace)}

WordEnd(s, i) ==
    CHOOSE j \in i..Len(s) :
        /\ \A h \in i..j : s[h] \notin Whitespace
        /\ j = Len(s) \/ s[j + 1] \in Whitespace

\* the whitespace-separated words of s, as atomic strings
WordsOf(s) ==
    LET starts == Sorted(WordStarts(s))
    IN  [n \in DOMAIN starts |-> Str(SubSeq(s, starts[n], WordEnd(s, starts[n])))]

\* C9: the agent run is the command [puppet_bin, 'agent'] followed by the
\* elements of a non-empty list or tuple exec_args, by the whitespace-separated
\* words of a string exec_args, and by --test when exec_args is absent or of
\* another type; the exec_args warning is logged in that last case only.
C9_AgentCommand ==
    HasPuppet
        => /\ \A k \in AgentRuns :
                LET extra == SubSeq(calls[k].args, 3, Len(calls[k].args))
                IN  IF ~HasKey(puppet_cfg, "exec_args") THEN extra = <<"--test">>
                    ELSE LET a == puppet_cfg.exec_args[1]
                         IN  /\ (a.type \in {"list", "tuple"} /\ a.value # <<>>) => extra = a.value
                             /\ a.type = "str" => extra = WordsOf(a.value)
                             /\ a.type \notin {"list", "tuple", "str"} => extra = <<"--test">>
           /\ InSeq(WarnUnknownExecArgs, warnings)
                <=> /\ pc \in {"service", "done", "failed"}
                    /\ AgentRuns # {}
                    /\ HasKey(puppet_cfg, "exec_args")
                    /\ puppet_cfg.exec_args[1].type \notin {"list", "tuple", "str"}

C9_Witness ==
    /\ HasPuppet /\ pc = "done" /\ HasKey(puppet_cfg, "exec_args")
    /\ puppet_cfg.exec_args[1].type = "str"
    /\ puppet_cfg.exec_args[1].value = <<"a", " ", "b">>
    /\ \E k \in AgentRuns : calls[k].args = <<puppet_bin, "agent", "a", "b">>

\* C10: the value stored for a key certname of a conf section is the lower-cased
\* result of replacing every %f by the fully-qualified hostname and every %i by
\* the instance identifier (%i.%f gives i-1.h.f on host H.f, instance I-1); the
\* value stored for any other key is the document's, unchanged.
C10_Certname ==
    (HasPuppet /\ PastConf /\ HasKey(puppet_cfg, "conf"))
        => \A k \in MappingSections :
             \A j \in DOMAIN conf[k].items :
                LET o == conf[k].items[j][1]
                    v == conf[k].items[j][2]
                    new == fs.files[Paths.conf_path]
                    at == OptionLinesFor(new, conf[k].name, o)
                IN  /\ Cardinality(at) = 1
                    /\ \A i \in at :
                         /\ o = "certname" =>
                              new[i].value =
                                 Lower(Replace(Replace(v, <<"%", "f">>, Fqdn), <<"%", "i">>, InstanceId))
                         /\ (o = "certname" /\ v = <<"%", "i", ".", "%", "f">>) =>
                              new[i].value = <<"i", "-", "1", ".", "h", ".", "f">>
                         /\ o # "certname" => new[i].value = v

C10_Witness ==
    /\ HasPuppet /\ pc = "done" /\ HasKey(puppet_cfg, "conf")
    /\ conf = <<[name |-> "agent",
                 items |-> << <<"certname", <<"%", "i", "H">> >>, <<"server", <<"%", "i", "H">> >> >>,
                 text |-> <<>>]>>
    /\ \E i \in DOMAIN fs.files[Paths.conf_path] :
            fs.files[Paths.conf_path][i] = OptionLine("certname", <<"i", "-", "1", "h">>)

\* the text at conf_path after the conf merge (lines 241-286) is run once more,
\* on the files as they are now, with the same conf, hostname and instance id
MergedAgain ==
    LET again == <<Call("load_file", <<Paths.conf_path>>)>>
                    \o AllSectionCalls(ReadFile(CleanLines(fs.files[Paths.conf_path])), conf)
    IN  Effects(fs, again).files[Paths.conf_path]

\* C11: once the conf merge of a run is over, running the merge a second time
\* with the same conf document leaves at conf_path the text the first merge left.
C11_MergeIdempotent ==
    (HasPuppet /\ PastConf /\ HasKey(puppet_cfg, "conf"))
        => MergedAgain = fs.files[Paths.conf_path]

C11_Witness ==
    /\ HasPuppet /\ pc = "done" /\ HasKey(puppet_cfg, "conf")
    /\ SectionsIn(env.text) = <<"main", "agent">>
    /\ \E k \in MappingSections :
            conf[k].name = "main" /\ InSeq("certname", NamedKeys("main"))
    /\ fs.files[Paths.conf_path] # env.text
    /\ KeysIn(fs.files[Paths.conf_path], "main") = <<"server", "vardir", "certname">>
    /\ MergedAgain = fs.files[Paths.conf_path]

\* C12: without the puppet key the run is a no-op: at every moment no external
\* call has been made (no installation, query, file read, rename, write, chown,
\* enable action, agent run or service start), the file system is as found,
\* nothing was logged as a warning, nothing raised, and the handler returns.
C12_NoKeyNoOp ==
    ~HasPuppet
        => /\ calls = <<>>
           /\ fs = InitialFs(env)
           /\ warnings = <<>>
           /\ IsNone(raised)
           /\ ~run /\ IsNone(p_constants) /\ puppet_config = <<>>
           /\ pc \in {"start", "done"}

C12_Witness ==
    /\ ~HasPuppet /\ pc = "done"
    /\ env.text # <<>> /\ ~IsNone(env.old)
    /\ calls = <<>> /\ fs = InitialFs(env)

\* the enable commands of _autostart_puppet
IsEnable(c) ==
    c.op = "subp" /\ c.args[1] \in {"sed", "/bin/systemctl", "/sbin/chkconfig"}

\* the stage of handle an external call belongs to: 1 installation, 2 path
\* resolution, 3 conf merge, 4 csr_attributes write, 5 autostart, 6 agent run,
\* 7 service start
StageOf(c) ==
    CASE c.op \in {"install_packages", "readurl", "mkdtemp", "rmtree"} -> 1
      [] c.op = "write_file" /\ c.args[1] = TmpFile -> 1
      [] IsScriptRun(c) -> 1
      [] IsConfigPrint(c) -> 2
      [] c.op \in {"load_file", "rename", "ensure_dir", "chownbyname"} -> 3
      [] c.op = "write_file" /\ c.args[1] \in {conf_file, ssl_dir \o "/certs/ca.pem"} -> 3
      [] c.op = "write_file" /\ c.args[1] = csr_attributes_path -> 4
      [] IsEnable(c) -> 5
      [] IsAgentRun(c) -> 6
      [] IsServiceStart(c) -> 7
      [] OTHER -> 0

\* the position in calls of the call that raised
RaisedAt ==
    CHOOSE k \in DOMAIN calls :
        calls[k] = raised[1] /\ \A j \in DOMAIN calls : calls[j] = raised[1] => j <= k

\* the calls that were made and did not raise, in order
Succeeded ==
    IF IsNone(raised) THEN calls
    ELSE SubSeq(calls, 1, RaisedAt - 1) \o SubSeq(calls, RaisedAt + 1, Len(calls))

\* the run was left at the call that raised: the only call made after it is the
\* removal of the install script's temporary directory, no call of a later
\* stage was made, and the file system is what the calls that succeeded made it
Aborted ==
    /\ pc = "failed"
    /\ \E k \in DOMAIN calls : calls[k] = raised[1]
    /\ \A k \in DOMAIN calls : k > RaisedAt => calls[k].op = "rmtree"
    /\ \A k \in DOMAIN calls : StageOf(calls[k]) \in 1..StageOf(raised[1])
    /\ ServiceStarts \subseteq {RaisedAt}
    /\ fs = Effects(InitialFs(env), Succeeded)

\* C13: an external call that raises ends the run at that call: no step is
\* taken afterwards, no call of a later stage is ever made, and what the calls
\* before it wrote, renamed or created stays as it is (nothing is rolled back).
C13_FailureAborts ==
    /\ []((pc = "failed" <=> ~IsNone(raised)) /\ (~IsNone(raised) => Aborted))
    /\ [][pc # "failed" /\ (pc' = "failed" <=> ~IsNone(raised'))]_vars

C13_Witness ==
    /\ pc = "failed" /\ HasPuppet /\ HasKey(puppet_cfg, "conf")
    /\ raised[1].op = "write_file" /\ raised[1].args[1] = Paths.conf_path
    /\ env.text # <<>>
    /\ ~IsFile(fs, Paths.conf_path)
    /\ fs.files[Paths.conf_path \o ".old"] = env.text
    /\ CallsOf("rename") = {Len(calls) - 1}
    /\ ServiceStarts = {}

\* the stages that have made a call so far
StagesSeen == {StageOf(calls[k]) : k \in DOMAIN calls}

\* C14: with the puppet key, the external calls of a run come stage by stage in
\* the order installation, path resolution, conf merge, csr_attributes write,
\* autostart, agent run, service start, and no stage is entered twice: there is
\* at most one installation, one query per path setting, one read of
\* puppet.conf, one csr_attributes write, one enable action, one agent run and
\* one service start; no query of the agent binary precedes a call of the
\* installation and the agent run precedes the service start.  A completed run
\* has resolved the paths and started the service.
C14_StageOrder ==
    HasPuppet
        => LET stage == SubSeq([k \in DOMAIN calls |-> StageOf(calls[k])], 1, Len(calls))
               queries == {k \in DOMAIN calls : IsConfigPrint(calls[k])}
               installs == {k \in DOMAIN calls : stage[k] = 1}
           IN  /\ \A k \in DOMAIN calls : stage[k] \in 1..7
               /\ \A k \in queries : stage[k] = 2
               /\ \A k \in 1..(Len(calls) - 1) : stage[k] <= stage[k + 1]
               /\ Cardinality(CallsOf("install_packages")) + Cardinality(CallsOf("readurl")) <= 1
               /\ \A j, k \in queries : j # k => calls[j].args[4] # calls[k].args[4]
               /\ Cardinality(CallsOf("load_file")) <= 1
               /\ Cardinality({k \in DOMAIN calls : stage[k] = 4}) <= 1
               /\ Cardinality({k \in DOMAIN calls : stage[k] = 5}) <= 1
               /\ Cardinality(AgentRuns) <= 1
               /\ Cardinality(ServiceStarts) <= 1
               /\ \A j \in queries : \A k \in installs : k < j
               /\ \A j \in AgentRuns : \A k \in ServiceStarts : j < k
               /\ pc = "done" => (queries # {} /\ ServiceStarts # {})
               /\ pc = "start" => calls = <<>>

C14_Witness ==
    /\ HasPuppet /\ pc = "done" /\ install /\ install_type = "aio" /\ exec
    /\ HasKey(puppet_cfg, "conf") /\ HasKey(puppet_cfg, "csr_attributes")
    /\ StagesSeen = 1..7
    /\ \E j \in AgentRuns : ServiceStarts = {j + 1}

\* the positions of the calls of the certificate write
CertPositions ==
    LET ca == ssl_dir \o "/certs/ca.pem"
    IN  {k \in DOMAIN calls :
            \/ calls[k].op \in {"ensure_dir", "chownbyname"}
            \/ IsWriteTo(calls[k], ca)}

\* the kind and the target of the effects of the certificate write, in order
CertOrder ==
    LET dir == ssl_dir
    IN  << <<"ensure_dir", dir>>, <<"chownbyname", dir>>,
           <<"ensure_dir", dir \o "/certs">>, <<"chownbyname", dir \o "/certs">>,
           <<"write_file", dir \o "/certs/ca.pem">>,
           <<"chownbyname", dir \o "/certs/ca.pem">> >>

\* the file system as call k of the run finds it
FsBefore(k) == Effects(InitialFs(env), SubSeq(calls, 1, k - 1))

\* the user the agent runs as
RuntimeUser == IF puppet_cfg.install_type = Some("aio") THEN "root" ELSE "puppet"

\* C15: the effects of the certificate write occur in the order create ssl_dir
\* (mode 0771), chown ssl_dir, create ssl_dir/certs, chown ssl_dir/certs, write
\* ca.pem, chown ca.pem, one right after the other; each chown finds its target
\* and each creation or write finds the directory it is made in; every chown
\* is to the runtime user (root for install_type aio, puppet otherwise) and
\* group root; once the conf loop is over for a conf with a ca_cert entry, all
\* six have been made and the directories, the file and their owners are there.
C15_CertWriteOrder ==
    HasPuppet
        => LET at == Sorted(CertPositions)
               order == CertOrder
           IN  /\ Len(at) <= 6
               /\ \A n \in DOMAIN at :
                    /\ at[n] = at[1] + n - 1
                    /\ <<calls[at[n]].op, calls[at[n]].args[1]>> = order[n]
                    /\ calls[at[n]].op = "chownbyname" =>
                         /\ calls[at[n]].args[2] = RuntimeUser
                         /\ calls[at[n]].args[3] = "root"
                         /\ \/ IsDir(FsBefore(at[n]), calls[at[n]].args[1])
                            \/ IsFile(FsBefore(at[n]), calls[at[n]].args[1])
                    /\ n = 1 => calls[at[n]].args[2] = Some(505)
                    /\ n = 3 => IsDir(FsBefore(at[n]), order[1][2])
                    /\ n = 5 => IsDir(FsBefore(at[n]), order[3][2])
               /\ (PastConf /\ HasKey(puppet_cfg, "conf")
                        /\ \E k \in DOMAIN conf : conf[k].name = "ca_cert")
                    => /\ Len(at) = 6
                       /\ fs.dirs[order[1][2]] = Some(505)
                       /\ IsDir(fs, order[3][2])
                       /\ IsFile(fs, order[5][2])
                       /\ \A n \in 1..6 : fs.owner[order[n][2]] = <<RuntimeUser, "root">>

C15_Witness ==
    /\ HasPuppet /\ pc = "done" /\ install_type = "aio"
    /\ HasKey(puppet_cfg, "conf") /\ HasKey(puppet_cfg, "ssl_dir")
    /\ Cardinality(CertPositions) = 6
    /\ fs.dirs["/custom/ssl"] = Some(SslDirMode)
    /\ fs.files["/custom/ssl/certs/ca.pem"] = Pem
    /\ fs.owner["/custom/ssl/certs/ca.pem"] = <<"root", "root">>

\* the positions of the enable actions
Enables == {k \in DOMAIN calls : IsEnable(calls[k])}

\* the handler is past _autostart_puppet and no call so far raised
PastAutostart == pc \in {"run", "service", "done"}

\* C16: a run makes at most one enable action: the START=yes edit when
\* /etc/default/puppet exists, else systemctl enable puppet.service when
\* /bin/systemctl exists, else chkconfig puppet on when /sbin/chkconfig exists;
\* past autostart there is one exactly when one of the three exists, and the
\* warning has been logged exactly when none exists; the warning is no error:
\* the run goes on, and when it completes the service start is its last call.
C16_AutostartPriority ==
    HasPuppet
        => /\ Cardinality(Enables) <= 1
           /\ \A k \in Enables :
                /\ calls[k].args[1] = "sed"
                     <=> "/etc/default/puppet" \in env.exists
                /\ calls[k].args[1] = "sed"
                     => calls[k].args = <<"sed", "-i", "-e", "s/^START=.*/START=yes/",
                                          "/etc/default/puppet">>
                /\ calls[k].args[1] = "/bin/systemctl"
                     <=> ("/etc/default/puppet" \notin env.exists /\ "/bin/systemctl" \in env.exists)
                /\ calls[k].args[1] = "/bin/systemctl"
                     => calls[k].args = <<"/bin/systemctl", "enable", "puppet.service">>
                /\ calls[k].args[1] = "/sbin/chkconfig"
                     <=> env.exists = {"/sbin/chkconfig"}
                /\ calls[k].args[1] = "/sbin/chkconfig"
                     => calls[k].args = <<"/sbin/chkconfig", "puppet", "on">>
           /\ PastAutostart => (Enables # {} <=> env.exists # {})
           /\ PastAutostart => (InSeq(WarnNoAutostart, warnings) <=> env.exists = {})
           /\ InSeq(WarnNoAutostart, warnings)
                => /\ env.exists = {} /\ Enables = {}
                   /\ pc = "failed" => StageOf(raised[1]) > 5
                   /\ pc = "done" => ServiceStarts = {Len(calls)}
           /\ pc \in {"start", "paths", "conf", "loop", "csr", "autostart"}
                => (Enables = {} /\ ~InSeq(WarnNoAutostart, warnings))

C16_Witness ==
    /\ HasPuppet /\ pc = "done"
    /\ env.exists = {"/bin/systemctl", "/sbin/chkconfig"}
    /\ \E k \in Enables : calls[k].args = <<"/bin/systemctl", "enable", "puppet.service">>
    /\ Cardinality(Enables) = 1
    /\ warnings = <<>>

\* C17: install_puppet_aio runs the fetched script with exactly -v and the
\* version when a version is given, then -c and the collection when a
\* collection is given, then --cleanup unless cleanup is false; the script is
\* fetched, from aio_install_url, before the temporary directory is created,
\* and written there before it is run; after the run the temporary directory
\* and the script are removed, whether the run succeeded or raised.
C17_AioArguments ==
    (HasPuppet /\ pc # "start" /\ install /\ install_type = "aio")
        => /\ \A k \in ScriptRuns :
                /\ calls[k].args =
                      <<TmpDir \o "/puppet-install">>
                          \o (IF HasKey(puppet_cfg, "version")
                              THEN <<"-v", puppet_cfg.version[1]>> ELSE <<>>)
                          \o (IF HasKey(puppet_cfg, "collection")
                              THEN <<"-c", puppet_cfg.collection[1]>> ELSE <<>>)
                          \o (IF puppet_cfg.cleanup = Some(FALSE) THEN <<>> ELSE <<"--cleanup">>)
                /\ k = 4
                /\ calls[3] = Call("write_file", <<TmpDir \o "/puppet-install", ScriptContent, Some(448)>>)
                /\ calls[5].op = "rmtree" /\ calls[5].args[1] = TmpDir
                /\ ~IsDir(fs, TmpDir) /\ ~IsFile(fs, TmpDir \o "/puppet-install")
           /\ calls[1].op = "readurl"
           /\ calls[1].args =
                <<IF HasKey(puppet_cfg, "aio_install_url") THEN puppet_cfg.aio_install_url[1]
                  ELSE AIO_INSTALL_URL, 5>>
           /\ \A k \in CallsOf("mkdtemp") : k = 2 /\ (IsNone(raised) \/ raised[1] # calls[1])
           /\ CallsOf("readurl") = {1}
           /\ PastInstall => ScriptRuns = {4}

C17_Witness ==
    /\ HasPuppet /\ pc = "failed" /\ install /\ install_type = "aio"
    /\ raised = Some(Call("subp", <<TmpFile, "-v", "6.0.0", "-c", "puppet7", "--cleanup">>))
    /\ ScriptRuns = {4} /\ Len(calls) = 5
    /\ calls[5].op = "rmtree"
    /\ ~IsDir(fs, TmpDir)

\* the positions of the writes of csr_attributes_path
CsrWrites ==
    LET path == csr_attributes_path
    IN  {k \in DOMAIN calls : IsWriteTo(calls[k], path)}

\* the handler is past the csr_attributes write and no call so far raised
PastCsr == pc \in {"autostart", "run", "service", "done"}

\* C18: csr_attributes_path is written at most once, only when the document
\* has csr_attributes, with the whole dumped mapping; past that step it has
\* been written exactly when the document has csr_attributes, with or without
\* conf.  Without conf, puppet.conf is never read, renamed or written, every
\* puppet.conf and puppet.conf.old is as found, and no directory is created
\* and no owner is set.
C18_CsrIndependentOfConf ==
    HasPuppet
        => /\ Cardinality(CsrWrites) <= 1
           /\ \A k \in CsrWrites :
                /\ HasKey(puppet_cfg, "csr_attributes")
                /\ calls[k].args[2] = YamlDump(puppet_cfg.csr_attributes[1])
           /\ PastCsr =>
                /\ CsrWrites # {} <=> HasKey(puppet_cfg, "csr_attributes")
                /\ HasKey(puppet_cfg, "csr_attributes") =>
                      fs.files[csr_attributes_path] = YamlDump(puppet_cfg.csr_attributes[1])
           /\ ~HasKey(puppet_cfg, "conf") =>
                /\ CallsOf("load_file") = {} /\ CallsOf("rename") = {}
                /\ CallsOf("ensure_dir") = {} /\ CallsOf("chownbyname") = {}
                /\ \A k \in CallsOf("write_file") :
                      calls[k].args[1] \in {csr_attributes_path, TmpFile}
                /\ \A c \in ConfCandidates :
                      /\ IsFile(fs, c) /\ fs.files[c] = env.text
                      /\ IF IsNone(env.old) THEN ~IsFile(fs, c \o ".old")
                         ELSE IsFile(fs, c \o ".old") /\ fs.files[c \o ".old"] = env.old[1]
                /\ ~IsDir(fs, ssl_dir) /\ ~IsDir(fs, ssl_dir \o "/certs")
                /\ ~IsFile(fs, ssl_dir \o "/certs/ca.pem")
                /\ fs.owner = EmptyMap

C18_Witness ==
    /\ HasPuppet /\ pc = "done"
    /\ ~HasKey(puppet_cfg, "conf") /\ HasKey(puppet_cfg, "csr_attributes")
    /\ Cardinality(CsrWrites) = 1
    /\ fs.files[Paths.csr_attributes_path] = <<"pp_uuid: ED80">>
    /\ env.text # <<>> /\ fs.files[Paths.conf_path] = env.text
    /\ CallsOf("load_file") = {}

\* the positions of the runs of `<bin> agent ...`
AgentRunsOf(bin) ==
    {k \in DOMAIN calls :
        calls[k].op = "subp" /\ Len(calls[k].args) >= 2
            /\ calls[k].args[1] = bin /\ calls[k].args[2] = "agent"}

\* the document names an install_type that is neither packages nor aio
NamesUnknownType == puppet_cfg.install_type \notin {None, Some("packages"), Some("aio")}

\* C19: past the installation step, run is exec unless install is true and the
\* install_type is unknown; with install false, an unknown install_type and
\* exec true, the unknown-type warning is never logged and a run that gets
\* past the agent step has run `puppet agent ...` once; with any install_type
\* other than aio the binary queried and run is puppet, the owner set is
\* puppet, and the package installed when none is named is puppet.
C19_RunForcedOffOnlyOnInstall ==
    HasPuppet
        => /\ pc # "start" =>
                (run <=> (puppet_cfg.exec = Some(TRUE)
                            /\ ~(puppet_cfg.install # Some(FALSE) /\ NamesUnknownType)))
           /\ (puppet_cfg.install = Some(FALSE) /\ NamesUnknownType)
                => /\ ~InSeq(WarnUnknownInstallType, warnings)
                   /\ (puppet_cfg.exec = Some(TRUE) /\ pc \in {"service", "done"})
                        => Cardinality(AgentRunsOf("puppet")) = 1
           /\ puppet_cfg.install_type # Some("aio")
                => /\ \A k \in DOMAIN calls :
                        /\ IsConfigPrint(calls[k]) => calls[k].args[1] = "puppet"
                        /\ calls[k].op = "chownbyname" => calls[k].args[2] = "puppet"
                        /\ (calls[k].op = "install_packages" /\ ~HasKey(puppet_cfg, "package_name"))
                             => calls[k].args[1] = "puppet"
                   /\ AgentRunsOf("/opt/puppetlabs/bin/puppet") = {}
                   /\ puppet_bin = "puppet" /\ puppet_user = "puppet" /\ puppet_package = "puppet"

C19_Witness ==
    /\ HasPuppet /\ pc = "done"
    /\ puppet_cfg.install = Some(FALSE) /\ puppet_cfg.install_type = Some("bogus")
    /\ puppet_cfg.exec = Some(TRUE)
    /\ warnings = <<>>
    /\ calls[1].args[1] = "puppet"
    /\ AgentRunsOf("puppet") = {Len(calls) - 1}

\* exec_args is an empty list or tuple, or a string of whitespace only
GivesNoArgument ==
    /\ HasKey(puppet_cfg, "exec_args")
    /\ LET a == puppet_cfg.exec_args[1]
       IN  \/ a.type \in {"list", "tuple"} /\ a.value = <<>>
           \/ a.type = "str" /\ \A i \in DOMAIN a.value : a.value[i] \in Whitespace

\* C20: with an exec_args that is an empty list or tuple, or an empty or
\* whitespace-only string, the agent is run as exactly [puppet_bin, 'agent']:
\* --test is not passed and the exec_args warning is not logged; with exec
\* true the agent run is made once in every run that gets past that step.
C20_EmptyExecArgs ==
    (HasPuppet /\ GivesNoArgument)
        => /\ \A k \in AgentRuns :
                calls[k].args =
                    <<IF puppet_cfg.install_type = Some("aio") THEN "/opt/puppetlabs/bin/puppet"
                      ELSE "puppet", "agent">>
           /\ \A k \in CallsOf("subp") : ~InSeq("--test", calls[k].args)
           /\ ~InSeq(WarnUnknownExecArgs, warnings)
           /\ (run /\ pc \in {"service", "done"}) => Cardinality(AgentRuns) = 1

C20_Witness ==
    /\ HasPuppet /\ pc = "done" /\ exec
    /\ puppet_cfg.exec_args = Some([type |-> "str", value |-> <<" ", " ">>])
    /\ calls[Len(calls) - 1] = Call("subp", <<"puppet", "agent">>)
    /\ warnings = <<>>

====
